---- MODULE Spec2Model ----
(***************************************************************************)
(* Model of the binary-space-partition tiling engine of aigi               *)
(* (src/aigi/src/tiling.rs): TilingState with its tree of Structure and    *)
(* Tile nodes and the tile_info map, and the operations insert_head,       *)
(* split, set_split, destroy and update_geometry_node.                     *)
(*                                                                         *)
(* The Rc<RefCell<..>> nodes live in `heap`, a table from node identities  *)
(* to records; a Node value (Node::Structure(rc) / Node::Tile(rc)) is the  *)
(* identity, the variant is the record's `kind`.                           *)
(*                                                                         *)
(* Variables:                                                              *)
(*   tile_tree_head   TilingState::tile_tree_head (NoNode for None)        *)
(*   tile_info        TilingState::tile_info, window -> identity of a Tile *)
(*   heap             the Structure and Tile records behind the Rc's       *)
(*   output_geometry  the rectangle of the output, which new_toplevel      *)
(*                    hands to insert_head (aigi_udev state.rs)            *)
(*   last             the name of the operation called last                *)
(*   panicked         an expect() or panic!() of the engine was reached    *)
(*   scenario         how many calls of the reference scenario of the      *)
(*                    specification (section 8) the calls so far followed  *)
(*   space            the compositor's Space<Window>: for each mapped      *)
(*                    window the location it is mapped at and the size its *)
(*                    toplevel was last configured with (aigi_udev)        *)
(*                                                                         *)
(* Each action is one call of the compositor into the engine, run to       *)
(* completion.  A statement about what a call does from a state is written *)
(* as an invariant over the reachable states: for every call the action    *)
(* can make from the state, the outcome the action computes is as claimed. *)
(***************************************************************************)
EXTENDS Integers, Sequences, FiniteSets, TLC

VARIABLES tile_tree_head, tile_info, heap, output_geometry, last, panicked,
          scenario, space

vars == <<tile_tree_head, tile_info, heap, output_geometry, last, panicked,
          scenario, space>>

----------------------------------------------------------------------------
(* Bounds of the model *)

\* number of distinct windows (toplevels) the environment can create
MaxWindows == 3

\* largest width/height of the small output rectangles given to insert_head
MaxExtent == 3

Windows == 1..MaxWindows

\* Option::None for a node reference (container, tile_tree_head)
NoNode == 0

\* Option::None for the new_geometry argument of update_geometry_node
NoGeometry == [none |-> TRUE]

----------------------------------------------------------------------------
(* Types *)

\* enum Split
Split == {"Vertical", "Horizontal"}

\* enum Side
Side == {"Left", "Right", "Unique"}

\* Rectangle<i32, Logical>: loc (x, y) and size (w, h)
Rect(x, y, w, h) == [x |-> x, y |-> y, w |-> w, h |-> h]

\* Rectangle::default()
RectDefault == Rect(0, 0, 0, 0)

\* the output of the reference scenario, 1000 x 800 at the origin
ScenarioOutput == Rect(0, 0, 1000, 800)

\* the rectangles the output of the compositor can have: the scenario's, with
\* even extents at every level, and a small one off the origin whose height 1
\* is odd and halves to 0 and whose width MaxExtent halves down to 0
OutputGeometries == {ScenarioOutput, Rect(1, 2, MaxExtent, 1)}

\* struct Tile
Tile(next_split, geometry, container, side, window) ==
    [kind |-> "Tile", next_split |-> next_split, geometry |-> geometry,
     container |-> container, side |-> side, window |-> window]

\* struct Structure
Structure(geometry, container, side, split, left, right) ==
    [kind |-> "Structure", geometry |-> geometry, container |-> container,
     side |-> side, split |-> split, left |-> left, right |-> right]

\* struct TilingState, with the heap its Rc's point into
TilingState(head, info, hp) == [head |-> head, info |-> info, heap |-> hp]

\* TilingState::init()
\* HashMap::new() and the empty heap
EmptyMap == [k \in {} |-> NoNode]

init == TilingState(NoNode, EmptyMap, EmptyMap)

----------------------------------------------------------------------------
(* Rc: allocation and drop *)

\* the least node identity from `from` on that is not in use
FreshFrom(hp, from) ==
    CHOOSE n \in from..(from + Cardinality(DOMAIN hp)) :
        /\ n \notin DOMAIN hp
        /\ \A m \in from..(n - 1) : m \in DOMAIN hp

\* Rc::new(RefCell::new(Tile {..})): an identity not in use; the window's own
\* number when that is free
FreshTile(hp, window) ==
    IF window \notin DOMAIN hp THEN window ELSE FreshFrom(hp, MaxWindows + 1)

\* Rc::new(RefCell::new(Structure {..})): an identity not in use
FreshStructure(hp) == FreshFrom(hp, MaxWindows + 1)

\* the node identities a node record holds an Rc to
Refs(node) ==
    (IF node.container = NoNode THEN {} ELSE {node.container})
        \cup (IF node.kind = "Structure" THEN {node.left, node.right} ELSE {})

RECURSIVE Closure(_, _)
Closure(hp, set) ==
    LET next == set \cup UNION { Refs(hp[n]) : n \in set }
    IN  IF next = set THEN set ELSE Closure(hp, next)

\* the nodes TilingState can still reach through its Rc's: from the head and
\* from tile_info, over left, right and container
Live(st) ==
    Closure(st.heap,
            (IF st.head = NoNode THEN {} ELSE {st.head})
                \cup { st.info[w] : w \in DOMAIN st.info })

\* nodes no Rc of TilingState leads to are never observed again
Drop(st) ==
    [st EXCEPT !.heap = [n \in Live(st) |-> st.heap[n]]]

----------------------------------------------------------------------------
(* Geometry *)

\* number of bits of n: the least k with n < 2^k
RECURSIVE BitLen(_)
BitLen(n) == IF n = 0 THEN 0 ELSE 1 + BitLen(n \div 2)

\* (e as f32 / 2.0).floor() as i32 for e >= 0.  `e as f32` rounds e to a 24-bit
\* significand, ties to even; below 2^24 the conversion and the halving are
\* exact, from 2^24 on the rounded value is a multiple of 2^k and its half is
\* the rounded significand times 2^(k-1).
HalfF32(e) ==
    IF e < 2^24 THEN e \div 2
    ELSE LET k    == BitLen(e) - 24
             q    == e \div (2^k)
             r    == e % (2^k)
             tie  == 2^(k - 1)
             sig  == IF r > tie \/ (r = tie /\ q % 2 = 1) THEN q + 1 ELSE q
         IN  sig * (2^(k - 1))

\* left_geom: the structure's geometry with the extent along the split halved
LeftGeom(geometry, split) ==
    IF split = "Horizontal"
    THEN [geometry EXCEPT !.w = HalfF32(geometry.w)]
    ELSE [geometry EXCEPT !.h = HalfF32(geometry.h)]

\* RightGeom with one unit more than the left child along the split
RightGeomPlusOne(left_geom, split) ==
    IF split = "Horizontal"
    THEN Rect(left_geom.x + left_geom.w, left_geom.y, left_geom.w + 1, left_geom.h)
    ELSE Rect(left_geom.x, left_geom.y + left_geom.h, left_geom.w, left_geom.h + 1)

\* RightGeom with the location of the left child kept
RightGeomSameLoc(left_geom, split) == left_geom

\* right_geom: Rectangle::from_loc_and_size(left loc advanced by the new
\* extent along the split, left_geom.size)
RightGeom(left_geom, split) ==
    IF split = "Horizontal"
    THEN Rect(left_geom.x + left_geom.w, left_geom.y, left_geom.w, left_geom.h)
    ELSE Rect(left_geom.x, left_geom.y + left_geom.h, left_geom.w, left_geom.h)

----------------------------------------------------------------------------
(* impl Node, impl Structure *)

\* Node::set_geometry that also puts next_split back to its default
Node_set_geometry_resets(hp, node, new_geometry) ==
    IF hp[node].kind = "Tile"
    THEN [hp EXCEPT ![node].geometry = new_geometry,
                    ![node].next_split = "Vertical"]
    ELSE [hp EXCEPT ![node].geometry = new_geometry]

\* Node::set_geometry that assigns nothing
Node_set_geometry_skips(hp, node, new_geometry) == hp

Node_set_geometry(hp, node, new_geometry) ==
    [hp EXCEPT ![node].geometry = new_geometry]

\* Node::set_container that always clears the container
Node_set_container_clears(hp, node, new_container) ==
    [hp EXCEPT ![node].container = NoNode]

\* Node::set_container that leaves the container as it is
Node_set_container_keeps(hp, node, new_container) == hp

Node_set_container(hp, node, new_container) ==
    [hp EXCEPT ![node].container = new_container]

\* Node::set_side that always marks the node Unique
Node_set_side_unique(hp, node, new_side) ==
    [hp EXCEPT ![node].side = "Unique"]

\* Node_set_side that leaves the side as it was
Node_set_side_keeps(hp, node, new_side) == hp

Node_set_side(hp, node, new_side) ==
    [hp EXCEPT ![node].side = new_side]

\* get_sibiling that hands back the child on the given side
get_sibiling_same_side(container, side) ==
    CASE side = "Left"   -> container.left
      [] side = "Right"  -> container.right
      [] side = "Unique" -> NoNode

\* Node::get_sibiling; NoNode stands for the panic of the Side::Unique arm
get_sibiling(container, side) ==
    CASE side = "Left"   -> container.right
      [] side = "Right"  -> container.left
      [] side = "Unique" -> NoNode

\* Structure::set_side on the structure `s` of the heap; the Side::Unique arm
\* panics (see Structure_set_side_panics)
\* Structure::set_side that leaves both slots as they are
Structure_set_side_skips(hp, s, side, node) == hp

\* Structure::set_side with the two arms exchanged
Structure_set_side_swapped(hp, s, side, node) ==
    CASE side = "Right"  -> [hp EXCEPT ![s].left = node]
      [] side = "Left"   -> [hp EXCEPT ![s].right = node]
      [] side = "Unique" -> hp

Structure_set_side(hp, s, side, node) ==
    CASE side = "Right"  -> [hp EXCEPT ![s].right = node]
      [] side = "Left"   -> [hp EXCEPT ![s].left = node]
      [] side = "Unique" -> hp

Structure_set_side_panics(side) == side = "Unique"

----------------------------------------------------------------------------
(* TilingState::update_geometry_node *)

\* update_geometry_node that sets the two children and does not descend
update_geometry_node_shallow(hp, node, new_geometry) ==
    IF hp[node].kind = "Tile"
    THEN hp
    ELSE LET h1 == IF new_geometry # NoGeometry
                   THEN [hp EXCEPT ![node].geometry = new_geometry]
                   ELSE hp
             structure  == h1[node]
             left_geom  == LeftGeom(structure.geometry, structure.split)
             right_geom == RightGeom(left_geom, structure.split)
         IN  [h1 EXCEPT ![structure.left].geometry = left_geom,
                        ![structure.right].geometry = right_geom]

\* update_geometry_node that halves the Structure's own geometry in place
\* where the code halves a copy of it
RECURSIVE update_geometry_node_in_place(_, _, _)
update_geometry_node_in_place(hp, node, new_geometry) ==
    IF hp[node].kind = "Tile"
    THEN hp
    ELSE LET h1 == IF new_geometry # NoGeometry
                   THEN [hp EXCEPT ![node].geometry = new_geometry]
                   ELSE hp
             structure  == h1[node]
             left_geom  == LeftGeom(structure.geometry, structure.split)
             right_geom == RightGeom(left_geom, structure.split)
             h2 == [h1 EXCEPT ![node].geometry = left_geom,
                              ![structure.left].geometry = left_geom,
                              ![structure.right].geometry = right_geom]
             h4 == update_geometry_node_in_place(h2, structure.left, NoGeometry)
         IN  update_geometry_node_in_place(h4, structure.right, NoGeometry)

RECURSIVE update_geometry_node(_, _, _)
update_geometry_node(hp, node, new_geometry) ==
    IF hp[node].kind = "Tile"
    THEN hp     \* panic!("you stupid?"), see update_geometry_node_panics
    ELSE LET h1 == IF new_geometry # NoGeometry
                   THEN [hp EXCEPT ![node].geometry = new_geometry]
                   ELSE hp
             structure  == h1[node]
             left_node  == structure.left
             right_node == structure.right
             left_geom  == LeftGeom(structure.geometry, structure.split)
             right_geom == RightGeom(left_geom, structure.split)
             h2 == Node_set_geometry(h1, left_node, left_geom)
             h3 == Node_set_geometry(h2, right_node, right_geom)
             h4 == IF h3[left_node].kind = "Structure"
                   THEN update_geometry_node(h3, left_node, NoGeometry)
                   ELSE h3
             h5 == IF h4[right_node].kind = "Structure"
                   THEN update_geometry_node(h4, right_node, NoGeometry)
                   ELSE h4
         IN  h5

update_geometry_node_panics(hp, node) == hp[node].kind = "Tile"

----------------------------------------------------------------------------
(* Results of a call *)

\* what a call hands back: Ok(node) / Err(..) of insert_head, the Node of
\* split, Ok(Some(node)) / Ok(None) of destroy, () of set_split, or a panic
\* a result that hands back no node
RetNoNode(tag, node) == [tag |-> tag, node |-> NoNode]

Ret(tag, node) == [tag |-> tag, node |-> node]

Panic == Ret("Panic", NoNode)

\* the outcome of an operation: the TilingState it leaves and what it returns
Outcome(st, r) == [st |-> st, ret |-> r]

\* HashMap::insert / HashMap::remove
MapInsert(map, key, value) ==
    [k \in DOMAIN map \cup {key} |-> IF k = key THEN value ELSE map[k]]

\* MapRemove that leaves the entry in place
MapRemoveKeeps(map, key) == map

MapRemove(map, key) == [k \in DOMAIN map \ {key} |-> map[k]]

----------------------------------------------------------------------------
(* impl TilingState *)

\* the Tile insert_head() builds for the first window
HeadTileHorizontal(window, geometry) ==
    Tile("Horizontal", geometry, NoNode, "Unique", window)

HeadTile(window, geometry) ==
    Tile("Vertical", geometry, NoNode, "Unique", window)

\* insert_head whose None arm does not insert the Tile in tile_info
insert_new_head_unregistered(st, window, geometry) ==
    LET tile == FreshTile(st.heap, window)
        hp   == MapInsert(st.heap, tile, HeadTile(window, geometry))
    IN  Outcome(Drop(TilingState(tile, st.info, hp)), Ret("Ok", tile))

\* the None arm of insert_head: the new Tile becomes the head
insert_new_head(st, window, geometry) ==
    LET tile == FreshTile(st.heap, window)
        hp   == MapInsert(st.heap, tile, HeadTile(window, geometry))
    IN  Outcome(Drop(TilingState(tile, MapInsert(st.info, window, tile), hp)),
                Ret("Ok", tile))

\* insert_head without the check for an existing head
insert_head_replaces(st, window, geometry) ==
    insert_new_head(st, window, geometry)

\* insert_head that registers the window before it looks at the head
insert_head_registers(st, window, geometry) ==
    IF st.head # NoNode
    THEN Outcome([st EXCEPT !.info = MapInsert(st.info, window, st.head)],
                 Ret("Err", NoNode))
    ELSE insert_new_head(st, window, geometry)

insert_head(st, window, geometry) ==
    IF st.head # NoNode
    THEN Outcome(st, Ret("Err", NoNode))
    ELSE insert_new_head(st, window, geometry)

\* NewStructure that always divides top/bottom
NewStructureVertical(t, tile_to_split, new_tile) ==
    Structure(t.geometry, t.container, t.side, "Vertical", tile_to_split, new_tile)

\* the Structure split() builds from the tile to split
\* the Structure of a split with the new Tile in both slots
NewStructureOnlyNew(t, tile_to_split, new_tile) ==
    Structure(t.geometry, t.container, t.side, t.next_split, new_tile, new_tile)

\* the Structure of a split with the split Tile in both slots
NewStructureTwice(t, tile_to_split, new_tile) ==
    Structure(t.geometry, t.container, t.side, t.next_split, tile_to_split,
              tile_to_split)

NewStructure(t, tile_to_split, new_tile) ==
    Structure(t.geometry, t.container, t.side, t.next_split, tile_to_split, new_tile)

\* the Tile split() builds for the new window
\* the Tile of a new window with the default next_split of insert_head
NewTileVertical(t, new_window) ==
    Tile("Vertical", RectDefault, NoNode, "Right", new_window)

\* the Tile of a new window with the side of a head
NewTileUnique(t, new_window) ==
    Tile(t.next_split, RectDefault, NoNode, "Unique", new_window)

NewTile(t, new_window) ==
    Tile(t.next_split, RectDefault, NoNode, "Right", new_window)

split(st, window, new_window) ==
    IF window \notin DOMAIN st.info
    THEN Outcome(st, Panic)
    ELSE LET tile_to_split == st.info[window]
             t         == st.heap[tile_to_split]
             new_tile  == FreshTile(st.heap, new_window)
             h1        == MapInsert(st.heap, new_tile, NewTile(t, new_window))
             info1     == MapInsert(st.info, new_window, new_tile)
             structure == FreshStructure(h1)
             h2        == MapInsert(h1, structure,
                                    NewStructure(t, tile_to_split, new_tile))
             upper     == h2[structure].container
         IN  IF upper # NoNode /\ Structure_set_side_panics(h2[structure].side)
             THEN Outcome(Drop(TilingState(st.head, info1, h2)), Panic)
             ELSE LET h3 == IF upper # NoNode
                            THEN Structure_set_side(h2, upper, h2[structure].side,
                                                    structure)
                            ELSE h2
                      head1 == IF upper # NoNode THEN st.head ELSE structure
                      h4 == [h3 EXCEPT ![tile_to_split].container = structure,
                                       ![tile_to_split].side = "Left"]
                      h5 == [h4 EXCEPT ![new_tile].container = structure]
                      h6 == update_geometry_node(h5, structure, NoGeometry)
                  IN  Outcome(Drop(TilingState(head1, info1, h6)),
                              Ret("Node", structure))

\* set_split that also turns the Structure the Tile already hangs in
set_split_reorients(st, wl_surface, new_split) ==
    IF wl_surface \notin DOMAIN st.info
    THEN Outcome(st, Panic)
    ELSE LET tile == st.info[wl_surface]
             h1   == [st.heap EXCEPT ![tile].next_split = new_split]
             c    == h1[tile].container
         IN  Outcome([st EXCEPT !.heap = IF c = NoNode THEN h1
                                         ELSE [h1 EXCEPT ![c].split = new_split]],
                     Ret("Unit", NoNode))

set_split(st, wl_surface, new_split) ==
    IF wl_surface \notin DOMAIN st.info
    THEN Outcome(st, Panic)
    ELSE Outcome([st EXCEPT !.heap[st.info[wl_surface]].next_split = new_split],
                 Ret("Unit", NoNode))

\* the None arm of destroy: the tile is unique, the head of the tree is removed
remove_last_tile_keeps_head(st, info1) ==
    Outcome(Drop(TilingState(st.head, info1, st.heap)), Ret("None", NoNode))

remove_last_tile(st, info1) ==
    Outcome(Drop(TilingState(NoNode, info1, st.heap)), Ret("None", NoNode))

\* promote that does not re-tile below a promoted Structure
promote_stale(st, info1, tile_to_destroy) ==
    LET t         == st.heap[tile_to_destroy]
        container == t.container
        sibiling  == get_sibiling(st.heap[container], t.side)
        upper_container == st.heap[container].container
        h1 == Node_set_geometry(st.heap, sibiling, st.heap[container].geometry)
        h2 == Node_set_container(h1, sibiling, upper_container)
        h3 == Node_set_side(h2, sibiling, h2[container].side)
        h4 == IF upper_container # NoNode
              THEN Structure_set_side(h3, upper_container, h3[container].side,
                                      sibiling)
              ELSE h3
        head1 == IF upper_container # NoNode THEN st.head ELSE sibiling
    IN  Outcome(Drop(TilingState(head1, info1, h4)), Ret("Some", sibiling))

\* destroy() once the tile has a container: promote the sibiling
promote(st, info1, tile_to_destroy) ==
    LET t         == st.heap[tile_to_destroy]
        container == t.container
        sibiling  == get_sibiling(st.heap[container], t.side)
    IN  IF sibiling = NoNode
        THEN Outcome(Drop(TilingState(st.head, info1, st.heap)), Panic)
        ELSE LET upper_container == st.heap[container].container
                 h1 == Node_set_geometry(st.heap, sibiling, st.heap[container].geometry)
                 h2 == Node_set_container(h1, sibiling, upper_container)
                 h3 == Node_set_side(h2, sibiling, h2[container].side)
             IN  IF upper_container # NoNode
                    /\ Structure_set_side_panics(h3[container].side)
                 THEN Outcome(Drop(TilingState(st.head, info1, h3)), Panic)
                 ELSE LET h4 == IF upper_container # NoNode
                                THEN Structure_set_side(h3, upper_container,
                                                        h3[container].side, sibiling)
                                ELSE h3
                          head1 == IF upper_container # NoNode
                                   THEN st.head ELSE sibiling
                          h5 == IF h4[sibiling].kind = "Structure"
                                THEN update_geometry_node(h4, sibiling, NoGeometry)
                                ELSE h4
                      IN  Outcome(Drop(TilingState(head1, info1, h5)),
                                  Ret("Some", sibiling))

destroy(st, wl_surface) ==
    IF wl_surface \notin DOMAIN st.info
    THEN Outcome(st, Panic)
    ELSE LET tile_to_destroy == st.info[wl_surface]
             info1 == MapRemove(st.info, wl_surface)
         IN  IF st.heap[tile_to_destroy].container = NoNode
             THEN remove_last_tile(st, info1)
             ELSE promote(st, info1, tile_to_destroy)

\* a call of update_geometry_node from outside: the Node::Tile arm panics
\* before anything is assigned
update_geometry(st, node, new_geometry) ==
    IF update_geometry_node_panics(st.heap, node)
    THEN Outcome(st, Panic)
    ELSE Outcome([st EXCEPT !.heap = update_geometry_node(st.heap, node, new_geometry)],
                 Ret("Unit", NoNode))

\* the calls TilingState::update_space makes for the Tiles under `node`, left
\* before right: for each Tile the window, the size it is configured with and
\* the location it is mapped at
\* update_space that descends into the left child only
RECURSIVE update_space_left_only(_, _)
update_space_left_only(hp, node) ==
    IF hp[node].kind = "Structure"
    THEN update_space_left_only(hp, hp[node].left)
    ELSE << [window |-> hp[node].window,
             size   |-> <<hp[node].geometry.w, hp[node].geometry.h>>,
             loc    |-> <<hp[node].geometry.x, hp[node].geometry.y>>] >>

RECURSIVE update_space(_, _)
update_space(hp, node) ==
    IF hp[node].kind = "Structure"
    THEN update_space(hp, hp[node].left) \o update_space(hp, hp[node].right)
    ELSE << [window |-> hp[node].window,
             size   |-> <<hp[node].geometry.w, hp[node].geometry.h>>,
             loc    |-> <<hp[node].geometry.x, hp[node].geometry.y>>] >>

----------------------------------------------------------------------------
(* The calls of the compositor and the reference scenario *)

CallInsertHead(window, geometry) ==
    [op |-> "insert_head", window |-> window, geometry |-> geometry]

CallSplit(window, new_window) ==
    [op |-> "split", window |-> window, new_window |-> new_window]

CallSetSplit(wl_surface, new_split) ==
    [op |-> "set_split", wl_surface |-> wl_surface, new_split |-> new_split]

CallDestroy(wl_surface) ==
    [op |-> "destroy", wl_surface |-> wl_surface]

CallUpdateGeometry(node, new_geometry) ==
    [op |-> "update_geometry_node", node |-> node, new_geometry |-> new_geometry]

\* the windows A, B and C of the reference scenario
Win == [A |-> 1, B |-> 2, C |-> 3]

\* how far the calls made so far have followed the reference scenario:
\* insert_root(A, 1000x800), split(A, B), change_axis(A, Horizontal),
\* split(A, C), destroy(C), each step taken from the state the previous left
ScenarioNext(sc, call, st) ==
    CASE call = CallInsertHead(Win.A, ScenarioOutput) /\ st.head = NoNode -> 1
      [] sc = 1 /\ call = CallSplit(Win.A, Win.B)                          -> 2
      [] sc = 2 /\ call = CallSetSplit(Win.A, "Horizontal")               -> 3
      [] sc = 3 /\ call = CallSplit(Win.A, Win.C)                          -> 4
      [] sc = 4 /\ call = CallDestroy(Win.C)                              -> 5
      [] OTHER                                                           -> 0

----------------------------------------------------------------------------
(* The state machine *)

State == TilingState(tile_tree_head, tile_info, heap)

\* the Structures under `node`, parent first, then left, then right
RECURSIVE Preorder(_, _)
Preorder(hp, node) ==
    IF node = NoNode \/ hp[node].kind = "Tile"
    THEN <<>>
    ELSE <<node>> \o Preorder(hp, hp[node].left) \o Preorder(hp, hp[node].right)

\* The address of an Rc is never looked at: only which node a reference leads
\* to matters.  Between calls the state is kept with the Structures numbered
\* in the order of Preorder, so that two heaps that differ only in the
\* addresses of their Structures are one state.  Heaps that are not a tree of
\* Structures over Tiles numbered by their windows are kept as they are.
Canonical(st) ==
    LET order   == Preorder(st.heap, st.head)
        inOrder == { order[i] : i \in 1..Len(order) }
        plain ==
            /\ Cardinality(inOrder) = Len(order)
            /\ \A n \in DOMAIN st.heap :
                IF st.heap[n].kind = "Structure"
                THEN n \in inOrder
                ELSE n \in Windows
        name == [n \in DOMAIN st.heap \cup {NoNode} |->
                    IF n \in inOrder
                    THEN MaxWindows + (CHOOSE i \in 1..Len(order) : order[i] = n)
                    ELSE n]
        node(r) ==
            IF r.kind = "Structure"
            THEN [r EXCEPT !.container = name[@], !.left = name[@],
                           !.right = name[@]]
            ELSE [r EXCEPT !.container = name[@]]
    IN  IF (\A i \in 1..Len(order) : order[i] = MaxWindows + i) \/ ~plain
        THEN st
        ELSE TilingState(name[st.head],
                         [w \in DOMAIN st.info |-> name[st.info[w]]],
                         [m \in { name[n] : n \in DOMAIN st.heap } |->
                             node(st.heap[CHOOSE n \in DOMAIN st.heap : name[n] = m])])

Init ==
    /\ tile_tree_head = init.head
    /\ tile_info = init.info
    /\ heap = init.heap
    /\ output_geometry \in OutputGeometries
    /\ last = "init"
    /\ panicked = FALSE
    /\ scenario = 0
    /\ space = EmptyMap

\* the variables after `call` had outcome `out`, with the output now `output`
\* and the Space now `mapped`
StepSpace(call, out, output, mapped) ==
    LET after == Canonical(out.st)
    IN  /\ ~panicked
        /\ tile_tree_head' = after.head
        /\ tile_info' = after.info
        /\ heap' = after.heap
        /\ output_geometry' = output
        /\ last' = call.op
        /\ panicked' = (out.ret = Panic)
        /\ scenario' = ScenarioNext(scenario, call, State)
        /\ space' = mapped

\* a call into the engine alone: the Space is not touched
StepOutput(call, out, output) == StepSpace(call, out, output, space)

\* the variables after `call` had outcome `out`
Step(call, out) == StepOutput(call, out, output_geometry)

\* new_toplevel with no window in focus: the new window gets the whole output
InsertHead ==
    \E window \in Windows \ DOMAIN tile_info :
        Step(CallInsertHead(window, output_geometry),
             insert_head(State, window, output_geometry))

\* new_toplevel: the focused, tiled window is split for a new window
SplitWindow ==
    \E window \in DOMAIN tile_info, new_window \in Windows \ DOMAIN tile_info :
        Step(CallSplit(window, new_window), split(State, window, new_window))

\* the change_split key action on the focused, tiled window
SetSplit ==
    \E wl_surface \in DOMAIN tile_info, new_split \in Split :
        Step(CallSetSplit(wl_surface, new_split),
             set_split(State, wl_surface, new_split))

\* toplevel_destroyed of a tiled window
Destroy ==
    \E wl_surface \in DOMAIN tile_info :
        Step(CallDestroy(wl_surface), destroy(State, wl_surface))

Next == InsertHead \/ SplitWindow \/ SetSplit \/ Destroy

Spec == Init /\ [][Next]_vars

\* outputs with extents past 2^24, where an i32 is no longer exact as f32
WideOutputs == { Rect(0, 0, 2^24 + 3, 2^25 + 6) }

InitWide ==
    /\ tile_tree_head = init.head
    /\ tile_info = init.info
    /\ heap = init.heap
    /\ output_geometry \in WideOutputs
    /\ last = "init"
    /\ panicked = FALSE
    /\ scenario = 0
    /\ space = EmptyMap

\* the same calls on an output of that size
SpecWide == InitWide /\ [][Next]_vars

----------------------------------------------------------------------------
(* Any client of the public functions of TilingState *)

\* split with a target that is not in tile_info
SplitAbsent ==
    \E window \in Windows \ DOMAIN tile_info, new_window \in Windows :
        Step(CallSplit(window, new_window), split(State, window, new_window))

\* set_split with a surface that is not in tile_info
SetSplitAbsent ==
    \E wl_surface \in Windows \ DOMAIN tile_info, new_split \in Split :
        Step(CallSetSplit(wl_surface, new_split),
             set_split(State, wl_surface, new_split))

\* destroy with a surface that is not in tile_info
DestroyAbsent ==
    \E wl_surface \in Windows \ DOMAIN tile_info :
        Step(CallDestroy(wl_surface), destroy(State, wl_surface))

\* update_geometry_node(node, None) on a node of the tree
UpdateGeometry ==
    \E node \in DOMAIN heap :
        Step(CallUpdateGeometry(node, NoGeometry),
             update_geometry(State, node, NoGeometry))

\* the output is resized: update_geometry_node(head, Some(new rectangle))
ResizeOutput ==
    \E new_geometry \in OutputGeometries :
        /\ tile_tree_head # NoNode
        /\ StepOutput(CallUpdateGeometry(tile_tree_head, new_geometry),
                      update_geometry(State, tile_tree_head, new_geometry),
                      new_geometry)

NextApi ==
    \/ Next
    \/ SplitAbsent
    \/ SetSplitAbsent
    \/ DestroyAbsent
    \/ UpdateGeometry
    \/ ResizeOutput

SpecApi == Init /\ [][NextApi]_vars

----------------------------------------------------------------------------
(* The handlers of the compositor (aigi_udev) *)

\* Option<WlSurface>::None of KeyboardHandle::current_focus
NoFocus == 0

\* the Space after the calls of update_space: each Tile's toplevel gets its
\* pending size and the window is mapped at the Tile's location
map_elements(sp, calls) ==
    LET touched == { calls[i].window : i \in 1..Len(calls) }
        final(w) == calls[CHOOSE i \in 1..Len(calls) :
                              /\ calls[i].window = w
                              /\ \A j \in (i + 1)..Len(calls) : calls[j].window # w]
    IN  [w \in DOMAIN sp \cup touched |->
            IF w \in touched
            THEN [loc |-> final(w).loc, size |-> final(w).size]
            ELSE sp[w]]

\* Space::unmap_elem that leaves the window mapped
unmap_elem_keeps(sp, window) == sp

\* Space::unmap_elem
unmap_elem(sp, window) == [w \in DOMAIN sp \ {window} |-> sp[w]]

\* what a handler leaves: the TilingState, whether it panicked, the Space
Handled(st, r, sp) == [st |-> st, ret |-> r, space |-> sp]

\* XdgShellHandler::new_toplevel with `focus` the keyboard focus
new_toplevel(st, sp, focus, window, output) ==
    IF focus # NoFocus /\ focus \notin DOMAIN sp
    THEN Handled(st, Panic, sp)    \* expect("Impossible having a surface ...")
    ELSE LET out == IF focus # NoFocus
                    THEN split(st, focus, window)
                    ELSE insert_head(st, window, output)
         IN  IF out.ret.tag \in {"Panic", "Err"}    \* Err: insert_head(..).unwrap()
             THEN Handled(out.st, Panic, sp)
             ELSE Handled(out.st, Ret("Unit", NoNode),
                          map_elements(sp, update_space(out.st.heap, out.ret.node)))

\* XdgShellHandler::toplevel_destroyed
toplevel_destroyed(st, sp, surface) ==
    IF surface \notin DOMAIN sp
    THEN Handled(st, Panic, sp)    \* expect("IMP destroy a non existring surface")
    ELSE LET sp1 == unmap_elem(sp, surface)
             out == destroy(st, surface)
         IN  CASE out.ret.tag = "Some" ->
                    Handled(out.st, Ret("Unit", NoNode),
                            map_elements(sp1, update_space(out.st.heap, out.ret.node)))
               [] out.ret.tag = "None" -> Handled(out.st, Ret("Unit", NoNode), sp1)
               [] OTHER -> Handled(out.st, Panic, sp1)

\* the change_split key action of handle_input
change_split(st, sp, focus, new_split) ==
    IF focus = NoFocus
    THEN Handled(st, Ret("Unit", NoNode), sp)
    ELSE Handled(set_split(st, focus, new_split).st,
                 set_split(st, focus, new_split).ret, sp)

\* what the keyboard focus can be when a handler starts: pointer motion puts
\* it on the surface under the pointer, a mapped window or none; it is none
\* until the pointer first moves
Focus == {NoFocus} \cup DOMAIN space

\* the toplevels that are alive: created, not yet destroyed
Alive == DOMAIN space \cup DOMAIN tile_info

CallNewToplevel(focus, window) ==
    [op |-> "new_toplevel", focus |-> focus, window |-> window]

CallToplevelDestroyed(surface) ==
    [op |-> "toplevel_destroyed", surface |-> surface]

CallChangeSplit(focus, new_split) ==
    [op |-> "change_split", focus |-> focus, new_split |-> new_split]

\* one handler run with outcome `done`
Handle(call, done) ==
    StepSpace(call, Outcome(done.st, done.ret), output_geometry, done.space)

NewToplevel ==
    \E focus \in Focus, window \in Windows \ Alive :
        Handle(CallNewToplevel(focus, window),
               new_toplevel(State, space, focus, window, output_geometry))

ToplevelDestroyed ==
    \E surface \in Alive :
        Handle(CallToplevelDestroyed(surface),
               toplevel_destroyed(State, space, surface))

ChangeSplit ==
    \E focus \in Focus, new_split \in Split :
        Handle(CallChangeSplit(focus, new_split),
               change_split(State, space, focus, new_split))

NextCompositor == NewToplevel \/ ToplevelDestroyed \/ ChangeSplit

SpecCompositor == Init /\ [][NextCompositor]_vars

----------------------------------------------------------------------------
(* Reading the tree *)

\* the child links of a node
Children(node) ==
    IF node.kind = "Structure" THEN {node.left, node.right} ELSE {}

RECURSIVE Descend(_, _)
Descend(hp, set) ==
    LET next == set \cup UNION { Children(hp[n]) : n \in set }
    IN  IF next = set THEN set ELSE Descend(hp, next)

\* the nodes of the subtree under `node`, over left and right only
Subtree(hp, node) == IF node = NoNode THEN {} ELSE Descend(hp, {node})

\* the nodes, Structures and Tiles reachable from the head of a TilingState
TreeNodes(st) == Subtree(st.heap, st.head)

TreeStructures(st) == { n \in TreeNodes(st) : st.heap[n].kind = "Structure" }

TreeTiles(st) == { n \in TreeNodes(st) : st.heap[n].kind = "Tile" }

\* the extent of a rectangle along an axis, and across it
Along(geometry, axis) == IF axis = "Horizontal" THEN geometry.w ELSE geometry.h

Across(geometry, axis) == IF axis = "Horizontal" THEN geometry.h ELSE geometry.w

\* the origin of a rectangle along an axis, and across it
OriginAlong(geometry, axis) ==
    IF axis = "Horizontal" THEN geometry.x ELSE geometry.y

OriginAcross(geometry, axis) ==
    IF axis = "Horizontal" THEN geometry.y ELSE geometry.x

----------------------------------------------------------------------------
(* C1: partition exactness *)

\* C1: every Structure reachable from the head, of extent e along its split,
\* has a left child of extent floor(e/2) and a right child of extent
\* e - floor(e/2): the extents sum to e and the odd unit goes to the right child.
C1_PartitionExact ==
    \A s \in TreeStructures(State) :
        LET e == Along(heap[s].geometry, heap[s].split)
        IN  /\ Along(heap[heap[s].left].geometry, heap[s].split) = e \div 2
            /\ Along(heap[heap[s].right].geometry, heap[s].split) = e - (e \div 2)

----------------------------------------------------------------------------
(* C2: placement *)

\* C2: for each Structure of the tree, along its split the left child starts
\* where the Structure starts and the right child starts where the left child
\* ends; across the split both children have the Structure's origin and
\* extent; the interiors of the two children are disjoint.
C2_Placement ==
    \A s \in TreeStructures(State) :
        LET a == heap[s].split
            g == heap[s].geometry
            l == heap[heap[s].left].geometry
            r == heap[heap[s].right].geometry
        IN  /\ OriginAlong(l, a) = OriginAlong(g, a)
            /\ OriginAcross(l, a) = OriginAcross(g, a)
            /\ Across(l, a) = Across(g, a)
            /\ OriginAlong(r, a) = OriginAlong(l, a) + Along(l, a)
            /\ OriginAcross(r, a) = OriginAcross(l, a)
            /\ Across(r, a) = Across(g, a)
            /\ \/ l.x + l.w <= r.x
               \/ r.x + r.w <= l.x
               \/ l.y + l.h <= r.y
               \/ r.y + r.h <= l.y

\* a Horizontal Structure with a Vertical Structure under it, both of positive
\* extent, left by a split
C2_Witness ==
    /\ last = "split"
    /\ \E s \in TreeStructures(State), c \in TreeStructures(State) :
        /\ c \in Children(heap[s])
        /\ heap[s].split = "Horizontal"
        /\ heap[c].split = "Vertical"
        /\ heap[s].geometry.w > 0
        /\ heap[c].geometry.h > 0

----------------------------------------------------------------------------
(* C3: bijection between tile_info and the Tiles of the tree *)

\* C3: the keys of tile_info are exactly the windows held by the Tiles
\* reachable from the head, and each key maps to the Tile of the tree that
\* holds that window.
C3_Bijection ==
    /\ DOMAIN tile_info = { heap[t].window : t \in TreeTiles(State) }
    /\ \A w \in DOMAIN tile_info :
        /\ tile_info[w] \in TreeTiles(State)
        /\ heap[tile_info[w]].window = w
    /\ \A t \in TreeTiles(State) : tile_info[heap[t].window] = t

\* two windows are left after a destroy
C3_Witness ==
    /\ last = "destroy"
    /\ Cardinality(DOMAIN tile_info) = 2
    /\ Cardinality(TreeTiles(State)) = 2

----------------------------------------------------------------------------
(* C4: the reference scenario *)

\* the rectangle of a tiled window
GeometryOf(st, window) == st.heap[st.info[window]].geometry

\* C4: insert_root(A, {0,0,1000,800}); split(A, B) gives A = {0,0,1000,400}
\* and B = {0,400,1000,400}; after change_axis(A, Horizontal), split(A, C)
\* gives A = {0,0,500,400}, C = {500,0,500,400} and B as before; destroy(C)
\* restores A to {0,0,1000,400} with B unchanged.
C4_Scenario ==
    /\ scenario = 1 =>
        /\ DOMAIN tile_info = {Win.A}
        /\ GeometryOf(State, Win.A) = Rect(0, 0, 1000, 800)
    /\ scenario \in {2, 3} =>
        /\ DOMAIN tile_info = {Win.A, Win.B}
        /\ GeometryOf(State, Win.A) = Rect(0, 0, 1000, 400)
        /\ GeometryOf(State, Win.B) = Rect(0, 400, 1000, 400)
    /\ scenario = 4 =>
        /\ DOMAIN tile_info = {Win.A, Win.B, Win.C}
        /\ GeometryOf(State, Win.A) = Rect(0, 0, 500, 400)
        /\ GeometryOf(State, Win.C) = Rect(500, 0, 500, 400)
        /\ GeometryOf(State, Win.B) = Rect(0, 400, 1000, 400)
    /\ scenario = 5 =>
        /\ DOMAIN tile_info = {Win.A, Win.B}
        /\ GeometryOf(State, Win.A) = Rect(0, 0, 1000, 400)
        /\ GeometryOf(State, Win.B) = Rect(0, 400, 1000, 400)

\* the scenario has been run to its end
C4_Witness == scenario = 5 /\ last = "destroy"

----------------------------------------------------------------------------
(* C5: split then destroy on a single-leaf tree *)

\* the tree of a TilingState is the single Tile of window `a`
SingleLeaf(st, a) ==
    /\ st.head # NoNode
    /\ st.heap[st.head].kind = "Tile"
    /\ a \in DOMAIN st.info
    /\ st.info[a] = st.head

\* C5: in a single-leaf tree holding window a with geometry G, split(a, b)
\* followed by destroy(b) leaves a single-leaf tree: the head is a's Tile, with
\* geometry G, side Unique and no container, and tile_info holds exactly a.
C5_SplitDestroyInverse ==
    \A a \in DOMAIN tile_info :
        SingleLeaf(State, a) =>
            \A b \in Windows \ DOMAIN tile_info :
                LET G     == heap[tile_tree_head].geometry
                    after == destroy(split(State, a, b).st, b)
                    root  == after.st.head
                IN  /\ after.ret.tag = "Some"
                    /\ root = tile_info[a]
                    /\ TreeNodes(after.st) = {root}
                    /\ after.st.heap[root].kind = "Tile"
                    /\ after.st.heap[root].window = a
                    /\ after.st.heap[root].geometry = G
                    /\ after.st.heap[root].side = "Unique"
                    /\ after.st.heap[root].container = NoNode
                    /\ DOMAIN after.st.info = {a}
                    /\ after.st.info[a] = root

\* a destroy has left a single Tile that covers an output of odd width
C5_Witness ==
    /\ last = "destroy"
    /\ \E a \in DOMAIN tile_info :
        /\ SingleLeaf(State, a)
        /\ heap[tile_tree_head].geometry = output_geometry
        /\ output_geometry.w % 2 = 1

----------------------------------------------------------------------------
(* C6, C7: insert_head *)

\* C6: insert_head(window, G) on an empty tree succeeds and leaves exactly one
\* Tile: it is the head, has geometry G, next_split Vertical, side Unique and
\* no container, and is the single entry of tile_info, under that window.
C6_InsertRoot ==
    tile_tree_head = NoNode =>
        \A window \in Windows \ DOMAIN tile_info :
            LET out  == insert_head(State, window, output_geometry)
                root == out.st.head
            IN  /\ out.ret = Ret("Ok", root)
                /\ root # NoNode
                /\ TreeNodes(out.st) = {root}
                /\ out.st.heap[root] =
                       [kind |-> "Tile", next_split |-> "Vertical",
                        geometry |-> output_geometry, container |-> NoNode,
                        side |-> "Unique", window |-> window]
                /\ DOMAIN out.st.info = {window}
                /\ out.st.info[window] = root

\* insert_head has put the first window on the whole output
C6_Witness ==
    /\ last = "insert_head"
    /\ Cardinality(DOMAIN tile_info) = 1
    /\ tile_tree_head # NoNode
    /\ heap[tile_tree_head].kind = "Tile"
    /\ heap[tile_tree_head].geometry = output_geometry

\* C7: insert_head on a tree that has a head, Tile or Structure, returns the
\* error and leaves the head, every node and tile_info as they were.
C7_InsertRootFails ==
    tile_tree_head # NoNode =>
        \A window \in Windows \ DOMAIN tile_info :
            LET out == insert_head(State, window, output_geometry)
            IN  /\ out.ret.tag = "Err"
                /\ out.st.head = tile_tree_head
                /\ out.st.heap = heap
                /\ out.st.info = tile_info

\* insert_head was called while a Structure was the head
C7_Witness ==
    /\ last = "insert_head"
    /\ tile_tree_head # NoNode
    /\ heap[tile_tree_head].kind = "Structure"

----------------------------------------------------------------------------
(* C8: split *)

\* the first half of a rectangle along an axis: the floor share, at its origin
FirstHalf(g, axis) ==
    IF axis = "Horizontal"
    THEN Rect(g.x, g.y, g.w \div 2, g.h)
    ELSE Rect(g.x, g.y, g.w, g.h \div 2)

\* the second half: the remainder, placed right after the first half
SecondHalf(g, axis) ==
    IF axis = "Horizontal"
    THEN Rect(g.x + (g.w \div 2), g.y, g.w - (g.w \div 2), g.h)
    ELSE Rect(g.x, g.y + (g.h \div 2), g.w, g.h - (g.h \div 2))

\* the child of Structure record `s` in the slot where `child` was in `before`
SameSlot(before, child, s) == IF before.left = child THEN s.left ELSE s.right

\* what C8 says of split(w, n) from the TilingState `st` with outcome `out`,
\* but for the rectangle of the new Tile
SplitStructure(st, w, n, out) ==
    LET L    == st.info[w]
        t    == st.heap[L]
        S    == out.ret.node
        post == out.st
    IN  /\ out.ret.tag = "Node"
        /\ S \notin DOMAIN st.heap
        /\ post.heap[S].kind = "Structure"
        /\ post.heap[S].geometry = t.geometry
        /\ post.heap[S].container = t.container
        /\ post.heap[S].side = t.side
        /\ post.heap[S].split = t.next_split
        /\ IF t.container # NoNode
           THEN /\ SameSlot(st.heap[t.container], L, post.heap[t.container]) = S
                /\ post.head = st.head
           ELSE post.head = S
        /\ post.heap[S].left = L
        /\ post.heap[L].kind = "Tile"
        /\ post.heap[L].window = w
        /\ post.heap[L].side = "Left"
        /\ post.heap[L].container = S
        /\ post.heap[L].geometry = FirstHalf(t.geometry, t.next_split)
        /\ n \in DOMAIN post.info
        /\ post.heap[S].right = post.info[n]
        /\ post.info[n] \notin DOMAIN st.heap
        /\ post.heap[post.info[n]].kind = "Tile"
        /\ post.heap[post.info[n]].window = n
        /\ post.heap[post.info[n]].side = "Right"
        /\ post.heap[post.info[n]].container = S

\* C8: split(w, n) on a tiled w with Tile L makes a Structure S with L's former
\* geometry, container and side and split = L.next_split; S takes L's place in
\* L's former container (or becomes the head); L is S.left with side Left and
\* the first half, a new Tile for n is S.right with side Right and the second
\* half; both have S as container.
C8_Split ==
    \A w \in DOMAIN tile_info, n \in Windows \ DOMAIN tile_info :
        LET out == split(State, w, n)
            t   == heap[tile_info[w]]
        IN  /\ SplitStructure(State, w, n, out)
            /\ GeometryOf(out.st, n) = SecondHalf(t.geometry, t.next_split)

----------------------------------------------------------------------------
(* C9, C10: destroy *)

\* C9: destroy(w) of a Tile L with container P: P's other child, the sibling,
\* gets P's geometry, container and side; it takes P's place in P's container
\* (or becomes the head); P and L are no longer reachable from the head; the
\* call returns the sibling.
C9_DestroyPromotes ==
    \A w \in DOMAIN tile_info :
        LET L == tile_info[w]
            P == heap[L].container
        IN  P # NoNode =>
                LET sib  == IF heap[P].left = L THEN heap[P].right ELSE heap[P].left
                    U    == heap[P].container
                    out  == destroy(State, w)
                    post == out.st
                IN  /\ out.ret = Ret("Some", sib)
                    /\ sib # L
                    /\ post.heap[sib].kind = heap[sib].kind
                    /\ post.heap[sib].geometry = heap[P].geometry
                    /\ post.heap[sib].container = U
                    /\ post.heap[sib].side = heap[P].side
                    /\ IF U # NoNode
                       THEN /\ SameSlot(heap[U], P, post.heap[U]) = sib
                            /\ post.head = tile_tree_head
                       ELSE post.head = sib
                    /\ P \notin TreeNodes(post)
                    /\ L \notin TreeNodes(post)
                    /\ sib \in TreeNodes(post)

\* a destroy has promoted a sibling: a Structure is the head and one of the
\* windows is no longer tiled
C9_Witness ==
    /\ last = "destroy"
    /\ tile_tree_head # NoNode
    /\ heap[tile_tree_head].kind = "Structure"
    /\ heap[tile_tree_head].geometry = output_geometry

\* C10: destroy(w) when w's Tile is the head of the tree removes w from
\* tile_info, leaves no head and returns None.
C10_DestroyRoot ==
    \A w \in DOMAIN tile_info :
        (tile_info[w] = tile_tree_head /\ heap[tile_info[w]].container = NoNode) =>
            LET out == destroy(State, w)
            IN  /\ out.ret = Ret("None", NoNode)
                /\ out.st.head = NoNode
                /\ TreeNodes(out.st) = {}
                /\ out.st.info = MapRemove(tile_info, w)
                /\ w \notin DOMAIN out.st.info

\* the last window has been destroyed
C10_Witness ==
    /\ last = "destroy"
    /\ tile_tree_head = NoNode
    /\ DOMAIN tile_info = {}

\* C11: set_split on a tiled window writes the Tile's next_split and nothing
\* else: the head, tile_info, every other field of that Tile and every other
\* node (so every rectangle and every Structure's split) stay as they were; the
\* new axis then is the split of the Structure that the next split of that
\* window creates.
C11_SetSplitFrame ==
    \A w \in DOMAIN tile_info : \A axis \in Split :
        LET L    == tile_info[w]
            out  == set_split(State, w, axis)
            post == out.st
        IN  /\ out.ret = Ret("Unit", NoNode)
            /\ post.head = tile_tree_head
            /\ post.info = tile_info
            /\ DOMAIN post.heap = DOMAIN heap
            /\ \A n \in DOMAIN heap \ {L} : post.heap[n] = heap[n]
            /\ post.heap[L] = [heap[L] EXCEPT !.next_split = axis]
            /\ \A n \in Windows \ DOMAIN tile_info :
                   LET next == split(post, w, n)
                   IN  /\ next.ret.tag = "Node"
                       /\ next.st.heap[next.ret.node].split = axis
                       /\ next.st.heap[next.ret.node].left = L

\* set_split has just turned a Tile's axis away from the axis of the
\* Structure the Tile hangs in
C11_Witness ==
    /\ last = "set_split"
    /\ \E w \in DOMAIN tile_info :
           LET L == tile_info[w]
           IN  /\ heap[L].next_split = "Horizontal"
               /\ heap[L].container # NoNode
               /\ heap[heap[L].container].split = "Vertical"

----------------------------------------------------------------------------
(* C12: update_geometry_node(node, None) is idempotent *)

\* the geometry of every node under `node`
Geometries(hp, node) == [n \in Subtree(hp, node) |-> hp[n].geometry]

\* update_geometry_node(node, None) twice leaves every node of the subtree
\* with the geometry it has after the first call
Idempotent(hp, node) ==
    LET once  == update_geometry_node(hp, node, NoGeometry)
        twice == update_geometry_node(once, node, NoGeometry)
    IN  /\ ~update_geometry_node_panics(hp, node)
        /\ ~update_geometry_node_panics(once, node)
        /\ Geometries(twice, node) = Geometries(once, node)
        /\ twice = once

\* C12: for every Structure of every reachable tree, a second
\* update_geometry_node(node, None) right after a first one changes no
\* rectangle of the subtree: both for the tree as it stands and for the tree
\* whose Structure was just handed another rectangle by set_geometry (the
\* state in which destroy calls it), where the first call moves every
\* descendant.
C12_Idempotent ==
    \A s \in TreeStructures(State) :
        /\ Idempotent(heap, s)
        /\ \A g \in OutputGeometries :
               Idempotent(Node_set_geometry(heap, s, g), s)

\* new_toplevel has just split a Tile, whose split ran
\* update_geometry_node(structure, None), in a tree where a Structure has a
\* Structure below it, and with another rectangle its first run moves nodes
C12_Witness ==
    /\ last = "new_toplevel"
    /\ ~panicked
    /\ \E s \in TreeStructures(State) :
           /\ heap[heap[s].left].kind = "Structure"
              \/ heap[heap[s].right].kind = "Structure"
           /\ \E g \in OutputGeometries :
                  LET stale == Node_set_geometry(heap, s, g)
                  IN  Geometries(update_geometry_node(stale, s, NoGeometry), s)
                          # Geometries(stale, s)

----------------------------------------------------------------------------
(* C13, C14: calls that fail *)

\* C13: split, destroy and set_split called with a window that is not in
\* tile_info hand back an error value to the caller (the recoverable
\* WindowNotFound) and do not panic.
C13_WindowNotFound ==
    \A w \in Windows \ DOMAIN tile_info :
        /\ \A n \in Windows : split(State, w, n).ret.tag = "Err"
        /\ \A axis \in Split : set_split(State, w, axis).ret.tag = "Err"
        /\ destroy(State, w).ret.tag = "Err"

\* C14: a call that fails leaves the state as it was: insert_head on a tree
\* that has a head, and split, set_split and destroy with a window that is not
\* in tile_info, end with the head, every field of every node and tile_info
\* equal to their values before the call.
C14_FailureKeepsState ==
    /\ tile_tree_head # NoNode =>
           \A w \in Windows : \A g \in OutputGeometries :
               LET out == insert_head(State, w, g)
               IN  out.ret.tag = "Err" /\ out.st = State
    /\ \A w \in Windows \ DOMAIN tile_info :
           /\ \A n \in Windows :
                  LET out == split(State, w, n)
                  IN  out.ret.tag # "Node" /\ out.st = State
           /\ \A axis \in Split :
                  LET out == set_split(State, w, axis)
                  IN  out.ret.tag # "Unit" /\ out.st = State
           /\ LET out == destroy(State, w)
              IN  out.ret.tag \notin {"None", "Some"} /\ out.st = State

\* destroy with a window that is not tiled has just failed on a tree of at
\* least two Tiles
C14_Witness ==
    /\ last = "destroy"
    /\ panicked
    /\ tile_tree_head # NoNode
    /\ heap[tile_tree_head].kind = "Structure"
    /\ Windows \ DOMAIN tile_info # {}

----------------------------------------------------------------------------
(* C15: update_geometry_node on a Tile *)

\* C15: update_geometry_node called on a Tile returns normally: with
\* Some(rectangle) the Tile afterwards has that rectangle and nothing else
\* changed, with None nothing changed at all.
C15_UpdateLeaf ==
    \A t \in DOMAIN heap :
        heap[t].kind = "Tile" =>
            /\ LET out == update_geometry(State, t, NoGeometry)
               IN  out.ret = Ret("Unit", NoNode) /\ out.st = State
            /\ \A g \in OutputGeometries :
                   LET out == update_geometry(State, t, g)
                   IN  /\ out.ret = Ret("Unit", NoNode)
                       /\ out.st = [State EXCEPT !.heap[t].geometry = g]

----------------------------------------------------------------------------
(* C16, C17: the invariants of the tree *)

\* C16: in every reachable state the head has side Unique and no container;
\* every other node of the tree has side Left or Right, never Unique, its
\* container is a Structure of the tree, and it is that Structure's left child
\* when its side is Left and its right child when its side is Right.
C16_Sides ==
    \A n \in TreeNodes(State) :
        IF n = tile_tree_head
        THEN heap[n].side = "Unique" /\ heap[n].container = NoNode
        ELSE /\ heap[n].side \in {"Left", "Right"}
             /\ heap[n].container \in TreeStructures(State)
             /\ heap[n].side = "Left"  => heap[heap[n].container].left = n
             /\ heap[n].side = "Right" => heap[heap[n].container].right = n

\* a split has just put a Structure in the right slot of another Structure
C16_Witness ==
    /\ last = "split"
    /\ \E n \in TreeStructures(State) :
           /\ heap[n].side = "Right"
           /\ heap[n].container # NoNode
           /\ heap[heap[n].container].right = n

\* the child slots of the tree that hold `node`
SlotsOf(st, node) ==
    { <<s, "left">>  : s \in { p \in TreeStructures(st) : st.heap[p].left = node } }
    \cup
    { <<s, "right">> : s \in { p \in TreeStructures(st) : st.heap[p].right = node } }

\* C17: in every reachable state each Structure reachable from the head has
\* two children that are nodes and differ from each other, no node is held by
\* more than one child slot of the tree (and the head by none), and every
\* Tile that tile_info refers to is reachable from the head.
C17_Shape ==
    /\ \A s \in TreeStructures(State) :
           /\ heap[s].left \in DOMAIN heap
           /\ heap[s].right \in DOMAIN heap
           /\ heap[s].left # heap[s].right
    /\ \A n \in DOMAIN heap : Cardinality(SlotsOf(State, n)) <= 1
    /\ tile_tree_head # NoNode => SlotsOf(State, tile_tree_head) = {}
    /\ \A w \in DOMAIN tile_info : tile_info[w] \in TreeTiles(State)

\* a destroy has just left a tree of two Tiles under one Structure
C17_Witness ==
    /\ last = "destroy"
    /\ tile_tree_head # NoNode
    /\ heap[tile_tree_head].kind = "Structure"
    /\ Cardinality(DOMAIN tile_info) = 2
    /\ Cardinality(TreeTiles(State)) = 2

----------------------------------------------------------------------------
(* C18: the number of Tiles *)

\* the number of Tiles reachable from the head
LeafCount(st) == Cardinality(TreeTiles(st))

\* C18: from every reachable state of k Tiles, a split that returns leaves a
\* tree of k + 1 Tiles and a destroy that returns one of k - 1; set_split and
\* update_geometry_node leave k as it is, as does every call that fails; and
\* from the empty tree no call but insert_head leads to a tree with a Tile,
\* insert_head leading to a tree of one.
C18_LeafCount ==
    LET k         == LeafCount(State)
        after(o)  == LeafCount(o.st)
        failed(o) == o.ret.tag \in {"Panic", "Err"}
        known(w)  == w \in DOMAIN tile_info
    IN  /\ \A w \in Windows :
               /\ \A n \in Windows \ DOMAIN tile_info :
                      LET o == split(State, w, n)
                      IN  IF failed(o)
                          THEN ~known(w) /\ after(o) = k
                          ELSE after(o) = k + 1
               /\ LET o == destroy(State, w)
                  IN  IF failed(o)
                      THEN ~known(w) /\ after(o) = k
                      ELSE after(o) = k - 1
               /\ \A axis \in Split : after(set_split(State, w, axis)) = k
               /\ \A g \in OutputGeometries :
                      LET o == insert_head(State, w, g)
                      IN  IF tile_tree_head = NoNode
                          THEN k = 0 /\ ~failed(o) /\ after(o) = 1
                          ELSE failed(o) /\ after(o) = k
        /\ \A node \in DOMAIN heap :
               \A g \in {NoGeometry} \cup OutputGeometries :
                   after(update_geometry(State, node, g)) = k

\* the tree has grown to as many Tiles as there are windows and a destroy has
\* taken one away again
C18_Witness ==
    /\ last = "destroy"
    /\ ~panicked
    /\ LeafCount(State) = MaxWindows - 1
    /\ LeafCount(State) = Cardinality(DOMAIN tile_info)

----------------------------------------------------------------------------
(* C19: back to the empty tree *)

\* C19: from every reachable state, destroying each tiled window once, in any
\* order, ends in the state init() builds (no head, no node, empty tile_info),
\* and insert_head then succeeds.  Stated for every state such a sequence
\* passes through, each of them being reachable itself: a destroy of any tiled
\* window returns and takes exactly that window out of tile_info, leaving a
\* head as long as a window is left and the state of init() when none is; and
\* in that state insert_head of any window returns Ok and tiles it.
C19_ReturnToEmpty ==
    /\ \A w \in DOMAIN tile_info :
           LET out == destroy(State, w)
           IN  /\ out.ret.tag \in {"None", "Some"}
               /\ DOMAIN out.st.info = DOMAIN tile_info \ {w}
               /\ IF DOMAIN out.st.info = {}
                  THEN out.st = init
                  ELSE /\ out.st.head # NoNode
                       /\ \A v \in DOMAIN out.st.info :
                              out.st.info[v] \in TreeTiles(out.st)
    /\ DOMAIN tile_info = {} =>
           /\ State = init
           /\ \A w \in Windows : \A g \in OutputGeometries :
                  LET out == insert_head(State, w, g)
                  IN  /\ out.ret.tag = "Ok"
                      /\ out.st.head # NoNode
                      /\ DOMAIN out.st.info = {w}

\* the last window has just been destroyed and insert_head would succeed
C19_Witness ==
    /\ last = "destroy"
    /\ ~panicked
    /\ State = init
    /\ \A w \in Windows : insert_head(State, w, output_geometry).ret.tag = "Ok"

----------------------------------------------------------------------------
(* C20: update_space *)

\* C20: for every node of every reachable tree, update_space(node) configures
\* and maps each Tile of the subtree under that node exactly once, with the
\* size and the location of that Tile's geometry, and no window whose Tile is
\* outside the subtree. (update_space takes &self and only borrows nodes
\* immutably; it hands nothing back to the tree or to tile_info.)
C20_UpdateSpace ==
    \A node \in TreeNodes(State) :
        LET calls  == update_space(heap, node)
            leaves == { n \in Subtree(heap, node) : heap[n].kind = "Tile" }
        IN  /\ Len(calls) = Cardinality(leaves)
            /\ \A t \in leaves :
                   Cardinality({ i \in 1..Len(calls) :
                                   calls[i].window = heap[t].window }) = 1
            /\ \A i \in 1..Len(calls) :
                   /\ calls[i].window \in DOMAIN tile_info
                   /\ tile_info[calls[i].window] \in leaves
                   /\ LET g == heap[tile_info[calls[i].window]].geometry
                      IN  /\ calls[i].size = <<g.w, g.h>>
                          /\ calls[i].loc = <<g.x, g.y>>

\* after a split, a Structure below the head has two Tiles under it and the
\* tree has a third Tile outside that subtree
C20_Witness ==
    /\ last = "split"
    /\ \E node \in TreeStructures(State) \ {tile_tree_head} :
           /\ Len(update_space(heap, node)) = 2
           /\ Len(update_space(heap, tile_tree_head)) = 3

----------------------------------------------------------------------------
(* C21: the node a call hands back covers what it changed *)

\* the windows tiled before and after the call whose Tile has another
\* geometry after it
Moved(st, out) ==
    { v \in DOMAIN st.info \cap DOMAIN out.st.info :
        GeometryOf(out.st, v) # GeometryOf(st, v) }

\* every Tile whose geometry the call changed, and the Tile `fresh` it made,
\* is under the node the call handed back
Covers(st, out, fresh) ==
    LET under == Subtree(out.st.heap, out.ret.node)
    IN  /\ out.ret.node \in TreeNodes(out.st)
        /\ \A v \in Moved(st, out) \cup fresh : out.st.info[v] \in under

\* C21: the Structure split returns and the sibling destroy returns cover
\* every change: a Tile whose geometry after the call differs from its
\* geometry before lies under the returned node (as does the Tile split
\* makes), so a Tile outside keeps its geometry; a destroy that returns None
\* leaves no Tile at all.
C21_ReturnedNodeCovers ==
    \A w \in DOMAIN tile_info :
        /\ \A n \in Windows \ DOMAIN tile_info :
               LET out == split(State, w, n)
               IN  out.ret.tag = "Node" /\ Covers(State, out, {n})
        /\ LET out == destroy(State, w)
           IN  IF out.ret.tag = "Some"
               THEN Covers(State, out, {})
               ELSE out.ret.tag = "None" /\ DOMAIN out.st.info = {}

\* a split has just made a Structure below the head, with a Tile outside it
\* that a destroy of its neighbour would move
C21_Witness ==
    /\ last = "split"
    /\ Cardinality(TreeStructures(State)) >= 2
    /\ \E w \in DOMAIN tile_info : Moved(State, destroy(State, w)) # {}

----------------------------------------------------------------------------
(* C22: what update_geometry_node leaves alone *)

\* the rectangles update_geometry_node is called with
NewGeometries == {NoGeometry, RectDefault} \cup OutputGeometries

\* C22: update_geometry_node on a node of the tree, with or without a
\* rectangle, returns when the node is a Structure and changes geometry fields
\* only, and only of that node and the nodes below it: the head, tile_info, the set of nodes, every node's kind, split,
\* next_split, side, container, children and window, and every field of the
\* nodes outside the subtree are as before.
C22_UpdateGeometryFrame ==
    \A node \in TreeNodes(State) :
        LET under == Subtree(heap, node)
        IN  \A g \in NewGeometries :
                LET out  == update_geometry(State, node, g)
                    post == out.st
                IN  /\ heap[node].kind = "Structure" =>
                           out.ret = Ret("Unit", NoNode)
                    /\ post.head = tile_tree_head
                    /\ post.info = tile_info
                    /\ DOMAIN post.heap = DOMAIN heap
                    /\ \A n \in under :
                           [post.heap[n] EXCEPT !.geometry = heap[n].geometry]
                               = heap[n]
                    /\ \A n \in DOMAIN heap \ under : post.heap[n] = heap[n]

\* new_toplevel has just split a Tile, whose split ran update_geometry_node
\* on the new Structure, in a tree where a Structure below the head, handed
\* another rectangle, moves its Tiles, one of which prefers Horizontal, and
\* leaves a Tile outside it alone
C22_Witness ==
    /\ last = "new_toplevel"
    /\ ~panicked
    /\ \E node \in TreeStructures(State) \ {tile_tree_head} :
           LET post == update_geometry(State, node, RectDefault).st
           IN  /\ \E n \in Subtree(heap, node) :
                      /\ heap[n].kind = "Tile"
                      /\ heap[n].next_split = "Horizontal"
                      /\ post.heap[n].geometry # heap[n].geometry
               /\ TreeTiles(State) \ Subtree(heap, node) # {}

----------------------------------------------------------------------------
(* C23: how the compositor calls the engine *)

\* C23: whatever new_toplevel, toplevel_destroyed, key and pointer events
\* came before, a new_toplevel that finds no keyboard focus (and so calls
\* insert_head) finds the tree empty, one that finds a focus (and so calls
\* split with it) finds that window in tile_info, and the handler returns:
\* its insert_head(..).unwrap() never meets the Err of a tree that has a head.
C23_CallerProtocol ==
    ~panicked =>
        \A focus \in Focus : \A window \in Windows \ Alive :
            /\ focus = NoFocus => tile_tree_head = NoNode
            /\ focus # NoFocus => focus \in DOMAIN tile_info
            /\ new_toplevel(State, space, focus, window, output_geometry).ret # Panic

----------------------------------------------------------------------------
(* C30: the Space follows the tree *)

\* the Space in which each tiled window is mapped at the location of its
\* Tile's geometry and configured with its size, and no other window is mapped
SpaceOf(st) ==
    [w \in DOMAIN st.info |->
        [loc  |-> <<GeometryOf(st, w).x, GeometryOf(st, w).y>>,
         size |-> <<GeometryOf(st, w).w, GeometryOf(st, w).h>>]]

\* C30: whenever a handler (new_toplevel, toplevel_destroyed, the key
\* action) has completed, the windows mapped in the Space are the windows of tile_info, each mapped
\* at the origin of its Tile's geometry with the size of that geometry as its
\* pending size; a window that was destroyed is not mapped.
C30_SpaceFollowsTree ==
    ~panicked => space = SpaceOf(State)

\* toplevel_destroyed has just unmapped a window and moved the two that are
\* left, which a new_toplevel had mapped elsewhere
C30_Witness ==
    /\ last = "toplevel_destroyed"
    /\ ~panicked
    /\ Cardinality(DOMAIN space) = 2
    /\ Cardinality(Windows \ DOMAIN space) = MaxWindows - 2
    /\ \E w \in DOMAIN space : space[w].size # <<0, 0>>

----------------------------------------------------------------------------
(* C24: the recursions end *)

\* how many nodes the recursion of update_geometry_node and update_space
\* enters when started at `node`; a descent longer than there are nodes never
\* ends and is counted as more than all of them
RECURSIVE Visits(_, _, _)
Visits(hp, node, fuel) ==
    IF fuel = 0
    THEN Cardinality(DOMAIN hp) + 1
    ELSE IF hp[node].kind = "Tile"
         THEN 1
         ELSE 1 + Visits(hp, hp[node].left, fuel - 1)
                + Visits(hp, hp[node].right, fuel - 1)

\* C24: in every reachable state the child links form a finite tree without
\* cycle: no Structure is below itself and its two subtrees share no node, so
\* the recursion of update_geometry_node and update_space started at any node
\* ends, having entered each node below it once; split and destroy, whose only
\* recursion that is, end as well and return.
C24_Termination ==
    /\ IsFiniteSet(DOMAIN heap)
    /\ \A s \in TreeStructures(State) :
           /\ s \notin Subtree(heap, heap[s].left) \cup Subtree(heap, heap[s].right)
           /\ Subtree(heap, heap[s].left) \cap Subtree(heap, heap[s].right) = {}
    /\ \A n \in TreeNodes(State) :
           /\ Visits(heap, n, Cardinality(DOMAIN heap))
                  = Cardinality(Subtree(heap, n))
           /\ heap[n].kind = "Structure" =>
                  update_geometry(State, n, NoGeometry).ret.tag = "Unit"
           /\ Len(update_space(heap, n)) <= Cardinality(Subtree(heap, n))
    /\ \A w \in DOMAIN tile_info :
           /\ destroy(State, w).ret.tag \in {"None", "Some"}
           /\ \A n \in Windows \ DOMAIN tile_info :
                  split(State, w, n).ret.tag = "Node"

\* a split has just made a tree two Structures deep: the recursion from the
\* head enters five nodes
C24_Witness ==
    /\ last = "split"
    /\ tile_tree_head # NoNode
    /\ Visits(heap, tile_tree_head, Cardinality(DOMAIN heap)) = 5

----------------------------------------------------------------------------
(* C25: destroy with a Structure as sibling *)

\* every Structure under `node` has its rectangle halved between its
\* children: the left child the first half, the right child the rest
Halved(hp, node) ==
    \A s \in Subtree(hp, node) :
        hp[s].kind = "Structure" =>
            /\ hp[hp[s].left].geometry = FirstHalf(hp[s].geometry, hp[s].split)
            /\ hp[hp[s].right].geometry = SecondHalf(hp[s].geometry, hp[s].split)

\* C25: a destroy whose sibling is a Structure leaves that Structure with its
\* own split and its own left and right children, gives it the rectangle of
\* the Structure it replaces, and leaves every rectangle below it recomputed
\* from that rectangle by the halving rule: first child floor(e/2) of the
\* extent e along the split, second child the remaining e - floor(e/2).
C25_DestroyRepartitions ==
    \A w \in DOMAIN tile_info :
        LET L == tile_info[w]
            P == heap[L].container
        IN  P # NoNode =>
                LET sib  == IF heap[P].left = L THEN heap[P].right ELSE heap[P].left
                    post == destroy(State, w).st
                IN  heap[sib].kind = "Structure" =>
                        /\ post.heap[sib].kind = "Structure"
                        /\ post.heap[sib].split = heap[sib].split
                        /\ post.heap[sib].left = heap[sib].left
                        /\ post.heap[sib].right = heap[sib].right
                        /\ post.heap[sib].geometry = heap[P].geometry
                        /\ Subtree(post.heap, sib) = Subtree(heap, sib)
                        /\ Halved(post.heap, sib)

----------------------------------------------------------------------------
(* C26: the next_split of the new Tile *)

\* C26: split(window, new_window) gives the Tile it makes for new_window the
\* next_split the split Tile has, and leaves the split Tile's next_split as
\* it is.
C26_InheritsNextSplit ==
    \A w \in DOMAIN tile_info : \A n \in Windows \ DOMAIN tile_info :
        LET L    == tile_info[w]
            post == split(State, w, n).st
        IN  /\ n \in DOMAIN post.info
            /\ post.info[n] # L
            /\ post.heap[post.info[n]].kind = "Tile"
            /\ post.heap[post.info[n]].next_split = heap[L].next_split
            /\ post.heap[L].next_split = heap[L].next_split

\* a split has just made a Horizontal Structure of two Tiles that both
\* prefer Horizontal
C26_Witness ==
    /\ last = "split"
    /\ \E s \in TreeStructures(State) :
           /\ heap[s].split = "Horizontal"
           /\ heap[heap[s].left].kind = "Tile"
           /\ heap[heap[s].right].kind = "Tile"
           /\ heap[heap[s].left].next_split = "Horizontal"
           /\ heap[heap[s].right].next_split = "Horizontal"

----------------------------------------------------------------------------
(* C27: update_geometry_node(node, Some(rectangle)) *)

\* the heap with the geometry of every node in `set` replaced by `g`
Scrambled(hp, set, g) ==
    [n \in DOMAIN hp |-> IF n \in set THEN [hp[n] EXCEPT !.geometry = g] ELSE hp[n]]

\* C27: update_geometry_node(node, Some(R)) on a Structure leaves the
\* Structure with the rectangle R and every node below it with a rectangle
\* that R and the splits of the subtree determine: the same subtree, with
\* whatever rectangles its nodes had before the call, ends with the same
\* rectangles (so a resize of the output applied at the head re-tiles the
\* whole tree).
C27_FunctionOfRectangle ==
    \A s \in TreeStructures(State) :
        LET under == Subtree(heap, s)
        IN  \A R \in OutputGeometries \cup {RectDefault} :
                LET post == update_geometry_node(heap, s, R)
                IN  /\ post[s].geometry = R
                    /\ \A g \in OutputGeometries \cup {RectDefault} :
                           LET before == Scrambled(heap, under, g)
                               other  == update_geometry_node(before, s, R)
                           IN  \A n \in under :
                                   other[n].geometry = post[n].geometry

\* update_geometry_node has just run on a tree two Structures deep whose head
\* has the rectangle of the output; handing the head the other output
\* rectangle moves every Tile
C27_Witness ==
    /\ last = "update_geometry_node"
    /\ ~panicked
    /\ tile_tree_head # NoNode
    /\ heap[tile_tree_head].geometry = output_geometry
    /\ Cardinality(TreeStructures(State)) = 2
    /\ \E R \in OutputGeometries :
           /\ R # output_geometry
           /\ \A t \in TreeTiles(State) :
                  update_geometry(State, tile_tree_head, R).st.heap[t].geometry
                      # heap[t].geometry

----------------------------------------------------------------------------
(* C28: split of a Tile of extent 0 *)

\* C28: split of a Tile whose geometry has extent 0 along its next_split
\* returns like any other split: the Structure and the new Tile exist, the
\* new window is in tile_info, and both children have extent 0 along the
\* split, the extent across it of the rectangle that was split, and its
\* origin.
C28_SplitZeroExtent ==
    \A w \in DOMAIN tile_info : \A n \in Windows \ DOMAIN tile_info :
        LET L    == tile_info[w]
            axis == heap[L].next_split
            g    == heap[L].geometry
        IN  Along(g, axis) = 0 =>
                LET out  == split(State, w, n)
                    post == out.st
                    S    == out.ret.node
                IN  /\ out.ret.tag = "Node"
                    /\ post.heap[S].kind = "Structure"
                    /\ post.heap[S].split = axis
                    /\ post.heap[S].geometry = g
                    /\ post.heap[S].left = L
                    /\ n \in DOMAIN post.info
                    /\ post.heap[S].right = post.info[n]
                    /\ post.heap[post.info[n]].kind = "Tile"
                    /\ post.heap[post.info[n]].window = n
                    /\ \A c \in {post.heap[S].left, post.heap[S].right} :
                           /\ Along(post.heap[c].geometry, axis) = 0
                           /\ Across(post.heap[c].geometry, axis) = Across(g, axis)
                           /\ post.heap[c].geometry.x = g.x
                           /\ post.heap[c].geometry.y = g.y

\* a split has just made a Structure of extent 0 along its split, of a
\* rectangle that is not empty across it
C28_Witness ==
    /\ last = "split"
    /\ \E s \in TreeStructures(State) :
           /\ Along(heap[s].geometry, heap[s].split) = 0
           /\ Across(heap[s].geometry, heap[s].split) > 0
           /\ heap[heap[s].left].kind = "Tile"
           /\ heap[heap[s].right].kind = "Tile"

----------------------------------------------------------------------------
(* C29: halving through f32 *)

\* C29: for every extent e of 0 <= e < 2^31 the halving step of
\* update_geometry_node, ((e as f32) / 2.0).floor() as i32, is floor(e / 2):
\* every Structure's left child has, along the split, the integer half of the
\* Structure's extent, and so would every rectangle of the tree if halved.
C29_HalvingIsFloor ==
    /\ \A s \in TreeStructures(State) :
           Along(heap[heap[s].left].geometry, heap[s].split)
               = Along(heap[s].geometry, heap[s].split) \div 2
    /\ \A n \in DOMAIN heap : \A axis \in Split :
           Along(LeftGeom(heap[n].geometry, axis), axis)
               = Along(heap[n].geometry, axis) \div 2

----------------------------------------------------------------------------
(* C31: split with a window that is already tiled *)

\* every Tile in the heap is the one tile_info has for its window
Indexed(st) ==
    \A n \in DOMAIN st.heap :
        st.heap[n].kind = "Tile" =>
            /\ st.heap[n].window \in DOMAIN st.info
            /\ st.info[st.heap[n].window] = n

\* split(window, new_window) where new_window is tiled already (or is the
\* target itself): split() does not look new_window up before it wraps it in
\* a new Tile and inserts it in tile_info.  The call is made on a tree that
\* no such call was made on before.
SplitTiled ==
    \E window \in DOMAIN tile_info, new_window \in DOMAIN tile_info :
        /\ Indexed(State)
        /\ Step(CallSplit(window, new_window), split(State, window, new_window))

NextAnySplit ==
    \/ Next
    \/ SplitTiled

\* the engine called with any split arguments whose target is tiled
SpecAnySplit == Init /\ [][NextAnySplit]_vars

\* C31: no two Tiles of the tree hold the same window, and every Tile of the
\* tree is the Tile tile_info maps its window to, also after split calls
\* whose new_window is tiled already or is the target.
C31_OneLeafPerWindow ==
    ~panicked =>
        /\ \A t1, t2 \in TreeTiles(State) :
               heap[t1].window = heap[t2].window => t1 = t2
        /\ \A t \in TreeTiles(State) :
               /\ heap[t].window \in DOMAIN tile_info
               /\ tile_info[heap[t].window] = t

----------------------------------------------------------------------------
(* C32: parent links *)

\* the two children of a Structure name it as their container
Adopted(hp, s) ==
    /\ hp[hp[s].left].container = s
    /\ hp[hp[s].right].container = s

\* C32: in every reachable state the head has no container, and every other
\* node of the tree has as container the one Structure of the tree that holds
\* it as left or right child; in particular the Structure a split returns
\* and the node a destroy promotes hang under the container they were put
\* into, and a Structure among them is the container of both its children.
C32_ParentLinks ==
    LET parents(st, n) ==
            { p \in TreeStructures(st) :
                  st.heap[p].left = n \/ st.heap[p].right = n }
        linked(st) ==
            \A n \in TreeNodes(st) :
                IF n = st.head
                THEN st.heap[n].container = NoNode /\ parents(st, n) = {}
                ELSE parents(st, n) = {st.heap[n].container}
        returned(o) ==
            o.ret.tag \in {"Node", "Some"} =>
                /\ linked(o.st)
                /\ o.st.heap[o.ret.node].kind = "Structure" =>
                       Adopted(o.st.heap, o.ret.node)
    IN  /\ linked(State)
        /\ \A s \in TreeStructures(State) : Adopted(heap, s)
        /\ \A w \in DOMAIN tile_info :
               /\ LET o == destroy(State, w) IN returned(o)
               /\ \A n \in Windows \ DOMAIN tile_info :
                      LET o == split(State, w, n) IN returned(o)

\* new_toplevel has just split a Tile and built a tree where one destroy
\* promotes a Structure, with its two children, to the head and another
\* promotes a Tile into the slot of a Structure that stays
C32_Witness ==
    /\ last = "new_toplevel"
    /\ \E w \in DOMAIN tile_info :
           LET o == destroy(State, w)
           IN  /\ o.ret.tag = "Some"
               /\ o.st.heap[o.ret.node].kind = "Structure"
               /\ o.st.head = o.ret.node
    /\ \E w \in DOMAIN tile_info :
           LET o == destroy(State, w)
           IN  /\ o.ret.tag = "Some"
               /\ o.st.heap[o.ret.node].kind = "Tile"
               /\ o.st.heap[o.ret.node].container # NoNode

----------------------------------------------------------------------------
(* C33: split followed by destroy of the new window *)

\* C33: from every reachable tree, for every tiled window a and every window
\* b that is not tiled, split(a, b) followed by destroy(b) returns a's Tile
\* and leaves the TilingState it started from: the same head, the same nodes
\* with the same children, geometry, side, container and next_split, and the
\* same tile_info.
C33_SplitDestroyRestores ==
    \A a \in DOMAIN tile_info :
        \A b \in Windows \ DOMAIN tile_info :
            LET halfway == split(State, a, b)
                back    == destroy(halfway.st, b)
            IN  /\ halfway.ret.tag = "Node"
                /\ halfway.st # State
                /\ back.ret = Ret("Some", tile_info[a])
                /\ back.st.head = tile_tree_head
                /\ back.st.info = tile_info
                /\ back.st.heap = heap

\* toplevel_destroyed has left two Tiles, one of them a right child that
\* prefers Horizontal and has an odd width, and a window is free to split it
\* for
C33_Witness ==
    /\ last = "toplevel_destroyed"
    /\ ~panicked
    /\ Windows \ DOMAIN tile_info # {}
    /\ \E a \in DOMAIN tile_info :
           LET t == heap[tile_info[a]]
           IN  /\ t.container # NoNode
               /\ t.side = "Right"
               /\ t.next_split = "Horizontal"
               /\ t.geometry.w % 2 = 1

----------------------------------------------------------------------------
(* C34: the local updates against a recomputation from the head *)

\* C34: in every reachable state whose head is a Structure,
\* update_geometry_node(head, None) returns and leaves every rectangle, and
\* with it the whole heap, as it is: the rectangles split and destroy left
\* behind by re-tiling only the subtree they touched are those of a
\* re-tiling of the whole tree from the head's rectangle.
C34_IncrementalIsFull ==
    (tile_tree_head # NoNode /\ heap[tile_tree_head].kind = "Structure") =>
        LET full == update_geometry(State, tile_tree_head, NoGeometry)
        IN  /\ full.ret = Ret("Unit", NoNode)
            /\ Geometries(full.st.heap, tile_tree_head)
                   = Geometries(heap, tile_tree_head)
            /\ full.st = State

\* toplevel_destroyed has just left a Structure at the head, over an output
\* of odd width, whose two Tiles have rectangles that differ
C34_Witness ==
    /\ last = "toplevel_destroyed"
    /\ ~panicked
    /\ tile_tree_head # NoNode
    /\ heap[tile_tree_head].kind = "Structure"
    /\ heap[tile_tree_head].geometry = output_geometry
    /\ output_geometry.w % 2 = 1
    /\ heap[heap[tile_tree_head].left].geometry
           # heap[heap[tile_tree_head].right].geometry

----------------------------------------------------------------------------
(* C35: the rectangle of the head *)

\* C35: in every reachable state with a tree, the head has the rectangle G
\* that insert_head was called with (the output's), whatever split,
\* set_split and destroy calls were made since, also when the head is the
\* Structure that replaced the first Tile or a node that a destroy promoted.
C35_HeadKeepsGeometry ==
    tile_tree_head # NoNode =>
        /\ heap[tile_tree_head].geometry = output_geometry
        /\ \A w \in DOMAIN tile_info :
               LET o == destroy(State, w)
               IN  o.st.head # NoNode =>
                       o.st.heap[o.st.head].geometry = output_geometry

\* new_toplevel has just split the Tile at the head, which a Structure with
\* the rectangle of the output replaced, and a destroy from here promotes to
\* the head a node that has another rectangle now
C35_Witness ==
    /\ last = "new_toplevel"
    /\ Cardinality(DOMAIN tile_info) = 2
    /\ heap[tile_tree_head].kind = "Structure"
    /\ heap[tile_tree_head].geometry = output_geometry
    /\ \E w \in DOMAIN tile_info :
           LET o == destroy(State, w)
           IN  /\ o.ret.tag = "Some"
               /\ o.st.head = o.ret.node
               /\ heap[o.ret.node].geometry # output_geometry

----------------------------------------------------------------------------
(* C36: the rectangles of the Tiles *)

\* the open interiors of two rectangles have no point in common
InteriorsDisjoint(a, b) ==
    \/ a.w <= 0 \/ a.h <= 0 \/ b.w <= 0 \/ b.h <= 0
    \/ a.x + a.w <= b.x
    \/ b.x + b.w <= a.x
    \/ a.y + a.h <= b.y
    \/ b.y + b.h <= a.y

\* rectangle `a` lies within rectangle `b`
Within(a, b) ==
    /\ b.x <= a.x
    /\ a.x + a.w <= b.x + b.w
    /\ b.y <= a.y
    /\ a.y + a.h <= b.y + b.h

\* C36: in every reachable state whose head has a rectangle of non-negative
\* size, the rectangles of two distinct Tiles of the tree have disjoint
\* interiors and the rectangle of every Tile lies within the head's.
C36_TilesInsideAndApart ==
    (tile_tree_head # NoNode
        /\ heap[tile_tree_head].geometry.w >= 0
        /\ heap[tile_tree_head].geometry.h >= 0) =>
        /\ \A t1, t2 \in TreeTiles(State) :
               t1 # t2 => InteriorsDisjoint(heap[t1].geometry, heap[t2].geometry)
        /\ \A t \in TreeTiles(State) :
               Within(heap[t].geometry, heap[tile_tree_head].geometry)

----------------------------------------------------------------------------
(* C37: the panics inside the engine *)

\* C37: under insert_head on the empty tree, split of a tiled window for a
\* window that is not tiled, set_split and destroy of tiled windows (the
\* steps of this specification, each of which records a panic it reaches in
\* `panicked`), no call panics: every node that has a container has side
\* Left or Right, so that the Side::Unique arms of Node::get_sibiling and
\* Structure::set_side are not reached; split hands update_geometry_node the
\* Structure it built, destroy hands it the sibling only when that is a
\* Structure, and below it only Structures are visited.
C37_NoInternalPanic ==
    /\ ~panicked
    /\ \A n \in TreeNodes(State) :
           heap[n].container # NoNode =>
               /\ ~Structure_set_side_panics(heap[n].side)
               /\ get_sibiling(heap[heap[n].container], heap[n].side) # NoNode
    /\ \A s \in TreeStructures(State) :
           /\ ~update_geometry_node_panics(heap, s)
           /\ heap[s].left # NoNode
           /\ heap[s].right # NoNode

\* no call has panicked after a split built a tree of three Tiles, in which
\* split went through Structure::set_side, one destroy will go through it
\* too and another will re-tile a promoted Structure
C37_Witness ==
    /\ ~panicked
    /\ last = "split"
    /\ Cardinality(DOMAIN tile_info) = 3
    /\ \E s \in TreeStructures(State) : heap[s].container # NoNode
    /\ \E w \in DOMAIN tile_info :
           LET o == destroy(State, w)
           IN  o.ret.tag = "Some" /\ o.st.heap[o.ret.node].container # NoNode
    /\ \E w \in DOMAIN tile_info :
           LET o == destroy(State, w)
           IN  o.ret.tag = "Some" /\ o.st.heap[o.ret.node].kind = "Structure"

----------------------------------------------------------------------------
(* C38: the head and tile_info *)

\* C38: in every reachable state tile_tree_head is None exactly when
\* tile_info is empty, the head is a Tile exactly when tile_info has one
\* entry, and a tree that is not empty has one Structure less than it has
\* Tiles.
C38_HeadAgreesWithIndex ==
    LET entries == Cardinality(DOMAIN tile_info)
    IN  /\ (tile_tree_head = NoNode) <=> (entries = 0)
        /\ (tile_tree_head # NoNode /\ heap[tile_tree_head].kind = "Tile")
               <=> (entries = 1)
        /\ tile_tree_head # NoNode =>
               Cardinality(TreeStructures(State)) = LeafCount(State) - 1

\* new_toplevel has just made a tree of three Tiles under two Structures,
\* from which destroys lead to a tree with a Tile at the head and on to the
\* empty tree
C38_Witness ==
    /\ last = "new_toplevel"
    /\ Cardinality(DOMAIN tile_info) = 3
    /\ Cardinality(TreeStructures(State)) = 2
    /\ \E w1, w2, w3 \in DOMAIN tile_info :
           LET one  == destroy(destroy(State, w1).st, w2).st
               none == destroy(one, w3).st
           IN  /\ one.head # NoNode
               /\ one.heap[one.head].kind = "Tile"
               /\ DOMAIN one.info = {w3}
               /\ none.head = NoNode
               /\ DOMAIN none.info = {}

----------------------------------------------------------------------------
(* C39: the first revision of the engine (src/aigi_first/src/tiling.rs) *)
(*                                                                          *)
(* Its Tile and Structure have the fields of the current ones under other   *)
(* names (Tile::split for next_split, sibiling for side, Node::Leaf and     *)
(* Node::Internal for Node::Tile and Node::Structure); its states are kept  *)
(* in the same records, so that the two engines can start from one state.   *)

\* aigi_first TilingState::insert_head
first_insert_head(st, window, geometry) ==
    IF st.head # NoNode
    THEN Outcome(st, Ret("Err", NoNode))
    ELSE LET tile == FreshTile(st.heap, window)
             hp   == MapInsert(st.heap, tile,
                               Tile("Vertical", geometry, NoNode, "Unique", window))
         IN  Outcome(Drop(TilingState(tile, MapInsert(st.info, window, tile), hp)),
                     Ret("Ok", tile))

\* aigi_first TilingState::update_geometry_node: new_geometry is never
\* assigned; the children of an Internal node get the two halves of its
\* rectangle, and Internal children are visited in turn
RECURSIVE first_update_geometry_node(_, _, _)
first_update_geometry_node(hp, node, new_geometry) ==
    IF hp[node].kind = "Tile"
    THEN hp     \* panic!("you stupid?")
    ELSE LET structure  == hp[node]
             left_node  == structure.left
             right_node == structure.right
             left_geom  == LeftGeom(structure.geometry, structure.split)
             right_geom == RightGeom(left_geom, structure.split)
             h2 == [hp EXCEPT ![left_node].geometry = left_geom]
             h3 == [h2 EXCEPT ![right_node].geometry = right_geom]
             h4 == IF h3[left_node].kind = "Structure"
                   THEN first_update_geometry_node(h3, left_node, NoGeometry)
                   ELSE h3
             h5 == IF h4[right_node].kind = "Structure"
                   THEN first_update_geometry_node(h4, right_node, NoGeometry)
                   ELSE h4
         IN  h5

\* aigi_first TilingState::split: the tile is halved in place and the new
\* Tile is built with the other half; the new Structure is put in the slot
\* of the upper container when there is one, and tile_tree_head is not
\* assigned in any case
first_split(st, to_split_window, new_window) ==
    IF to_split_window \notin DOMAIN st.info
    THEN Outcome(st, Panic)
    ELSE LET tile_to_split      == st.info[to_split_window]
             t                  == st.heap[tile_to_split]
             container_geometry == t.geometry
             upper_container    == t.container
             prev_sibiling      == t.side
             halved   == LeftGeom(container_geometry, t.next_split)
             h1       == [st.heap EXCEPT ![tile_to_split].geometry = halved,
                                         ![tile_to_split].side = "Left",
                                         ![tile_to_split].container = NoNode]
             new_tile == FreshTile(h1, new_window)
             h2       == MapInsert(h1, new_tile,
                                   Tile(t.next_split,
                                        RightGeom(halved, t.next_split),
                                        NoNode, "Right", new_window))
             info1    == MapInsert(st.info, new_window, new_tile)
             structure_node == FreshStructure(h2)
             h3       == MapInsert(h2, structure_node,
                                   Structure(container_geometry, upper_container,
                                             prev_sibiling, t.next_split,
                                             tile_to_split, new_tile))
             h4       == [h3 EXCEPT ![tile_to_split].container = structure_node,
                                    ![new_tile].container = structure_node]
         IN  IF upper_container # NoNode
                /\ h4[upper_container].kind = "Structure"
             THEN CASE prev_sibiling = "Left" ->
                         Outcome(Drop(TilingState(st.head, info1,
                                    [h4 EXCEPT ![upper_container].left =
                                                   structure_node])),
                                 Ret("Node", structure_node))
                    [] prev_sibiling = "Right" ->
                         Outcome(Drop(TilingState(st.head, info1,
                                    [h4 EXCEPT ![upper_container].right =
                                                   structure_node])),
                                 Ret("Node", structure_node))
                    [] OTHER ->
                         Outcome(Drop(TilingState(st.head, info1, h4)), Panic)
             ELSE Outcome(Drop(TilingState(st.head, info1, h4)),
                          Ret("Node", structure_node))

\* aigi_first destroy, the sibiling is a Leaf: it takes the geometry and the
\* container of the container and, under an upper container, its slot; its
\* sibiling field and tile_tree_head are not assigned
first_destroy_leaf(st, container, sibiling_node) ==
    LET c  == st.heap[container]
        h1 == [st.heap EXCEPT ![sibiling_node].geometry = c.geometry,
                              ![sibiling_node].container = c.container]
        upper_container == h1[sibiling_node].container
    IN  IF upper_container = NoNode
        THEN Outcome(Drop(TilingState(st.head, st.info, h1)),
                     Ret("Some", sibiling_node))
        ELSE IF h1[upper_container].kind = "Tile"
        THEN Outcome(Drop(TilingState(st.head, st.info, h1)), Panic)
        ELSE CASE c.side = "Right" ->
                    Outcome(Drop(TilingState(st.head, st.info,
                               [h1 EXCEPT ![upper_container].right =
                                              sibiling_node])),
                            Ret("Some", sibiling_node))
               [] c.side = "Left" ->
                    Outcome(Drop(TilingState(st.head, st.info,
                               [h1 EXCEPT ![upper_container].left =
                                              sibiling_node])),
                            Ret("Some", sibiling_node))
               [] OTHER ->
                    Outcome(Drop(TilingState(st.head, st.info, h1)), Panic)

\* aigi_first destroy, the sibiling is an Internal node: without an upper
\* container the sibiling takes the container's geometry and becomes the
\* head; with one, the upper container takes the sibiling's two children as
\* its own left and right; the children get that node as container and the
\* subtree under it is re-tiled
first_destroy_internal(st, container, structure) ==
    LET c          == st.heap[container]
        left_node  == st.heap[structure].left
        right_node == st.heap[structure].right
        promoted   == c.container = NoNode
        upper_container == IF promoted THEN structure ELSE c.container
        h1    == IF promoted
                 THEN [st.heap EXCEPT ![structure].geometry = c.geometry]
                 ELSE st.heap
        head1 == IF promoted THEN structure ELSE st.head
        h2    == [h1 EXCEPT ![left_node].container = upper_container,
                            ![right_node].container = upper_container]
        h3    == IF h2[upper_container].kind = "Structure"
                 THEN [h2 EXCEPT ![upper_container].left = left_node,
                                 ![upper_container].right = right_node]
                 ELSE h2
    IN  IF h3[upper_container].kind = "Tile"
        THEN Outcome(Drop(TilingState(head1, st.info, h3)), Panic)
        ELSE Outcome(Drop(TilingState(head1, st.info,
                        first_update_geometry_node(h3, upper_container,
                                                   NoGeometry))),
                     Ret("Some", upper_container))

\* aigi_first TilingState::destroy: the tile is looked up with get_mut, and
\* stays in tile_info; a tile without container returns Ok(None) at once
first_destroy(st, wl_surface) ==
    IF wl_surface \notin DOMAIN st.info
    THEN Outcome(st, Panic)
    ELSE LET tile_to_destroy == st.heap[st.info[wl_surface]]
             container       == tile_to_destroy.container
         IN  IF container = NoNode
             THEN Outcome(st, Ret("None", NoNode))
             ELSE IF st.heap[container].kind = "Tile"
                     \/ tile_to_destroy.side = "Unique"
             THEN Outcome(st, Panic)
             ELSE LET sibiling_node ==
                          IF tile_to_destroy.side = "Left"
                          THEN st.heap[container].right
                          ELSE st.heap[container].left
                  IN  IF st.heap[sibiling_node].kind = "Tile"
                      THEN first_destroy_leaf(st, container, sibiling_node)
                      ELSE first_destroy_internal(st, container, sibiling_node)

\* two TilingStates have the same head, the same tree under it (the same
\* nodes, of the same kind, with the same children and, for Tiles, the same
\* window), the same Tile geometries and the same keys in tile_info
SameTree(a, b) ==
    /\ a.head = b.head
    /\ TreeNodes(a) = TreeNodes(b)
    /\ \A n \in TreeNodes(a) \cap TreeNodes(b) :
           /\ a.heap[n].kind = b.heap[n].kind
           /\ a.heap[n].kind = "Structure" /\ b.heap[n].kind = "Structure" =>
                  /\ a.heap[n].left = b.heap[n].left
                  /\ a.heap[n].right = b.heap[n].right
           /\ a.heap[n].kind = "Tile" /\ b.heap[n].kind = "Tile" =>
                  /\ a.heap[n].window = b.heap[n].window
                  /\ a.heap[n].geometry = b.heap[n].geometry
    /\ DOMAIN a.info = DOMAIN b.info

\* C39: from every reachable state, the same insert_head, split or destroy
\* call leaves the first revision of the engine and the current one with the
\* same head, the same tree shape, the same Tile geometries and the same
\* keys in tile_info.
C39_FirstRevisionAgrees ==
    /\ \A w \in Windows \ DOMAIN tile_info :
           SameTree(first_insert_head(State, w, output_geometry).st,
                    insert_head(State, w, output_geometry).st)
    /\ \A w \in DOMAIN tile_info :
           /\ \A n \in Windows \ DOMAIN tile_info :
                  SameTree(first_split(State, w, n).st, split(State, w, n).st)
           /\ SameTree(first_destroy(State, w).st, destroy(State, w).st)

====
